---- MODULE Spec2Model ----
(***************************************************************************)
(* A model of the envelope_detector crate: the Rms window (src/src/rms.rs),*)
(* the Peak rectifier (src/src/peak.rs), the single channel attack/release *)
(* smoother Mono and the MultiChannel envelope detector (src/src/lib.rs).  *)
(*                                                                         *)
(* Sample values are integers: one unit is the smallest value the float    *)
(* format of the model can hold.  `prec` is the width of the mantissa:     *)
(* with prec = 0 sums, differences and products are exact (the f32 code on *)
(* values small enough that none of them rounds) and quotients and roots   *)
(* round to the unit; with prec = MantBits every result is rounded to the  *)
(* nearest value of MantBits significant bits, ties to even, as IEEE-754   *)
(* arithmetic on f32 does with 24 bits.                                    *)
(***************************************************************************)
EXTENDS Integers, Sequences, FiniteSets, TLC

VARIABLES
    prec,          \* mantissa width of the arithmetic, 0 = exact
    rms,           \* a standalone Rms: [window, sum]
    mode,          \* detector: "none" before construction, "rms" or "peak";
                   \* "mono_rms" or "mono_peak" for a single channel detector
    channels,      \* detector: MultiChannel.channels, a sequence of Mono
    attack_gain,   \* detector: EnvelopeDetector.attack_gain (numerator over GainDen)
    release_gain,  \* detector: EnvelopeDetector.release_gain (numerator over GainDen)
    mono,          \* a MonoEnvelopeDetector's channel_mode, a Mono
    step,          \* ghost: the mode estimate, the gain and the envelope the last Mono::next started from
    configured,    \* ghost: the window size of the constructor or of the last set_window_frames
    returned,      \* ghost: per channel, the value next returned last for it, 0 if it never did
    requested,     \* ghost: n of the constructor or of the last set_channels that returned
    pre,           \* ghost: channels before the last call that returned, if that was set_channels
    back,          \* ghost: set_channels grew the detector and then shrank it back
    hist,          \* ghost: the samples fed to the standalone Rms since Rms::new, while no other call came between
    clamped,       \* ghost: the last call on the standalone Rms clamped a negative sum to 0
    fed,           \* ghost: the number of samples the detector has been fed
    call           \* ghost: the last call, its argument, its outcome and its value

vars == <<prec, rms, mode, channels, mono, step, configured, returned, attack_gain, release_gain, requested, pre,
          back, hist, clamped, fed, call>>

\* ------------------------------------------------------------------ bounds

\* the standalone Rms: the greatest sample magnitude and window size
MaxSample == 2
MaxWindow == 3
\* the standalone Rms: the number of samples remembered after Rms::new
MaxHist == 4
\* the detector: the greatest sample magnitude, window size and channel
\* count a host asks for, and the number of samples it feeds
MaxDetSample == 1
MaxDetWindow == 1
MaxChannels == 3
MaxFrames == 1
\* the mantissa width of the rounding arithmetic
MantBits == 2
\* the single channel detector: the greatest sample magnitude
MaxMonoSample == 4

Samples == (0 - MaxSample)..MaxSample
WindowSizes == 0..MaxWindow
DetSamples == (0 - MaxDetSample)..MaxDetSample
DetWindowSizes == 0..MaxDetWindow
MonoSamples == (0 - MaxMonoSample)..MaxMonoSample
ChannelCounts == 0..MaxChannels
\* attack and release times in frames handed to calc_gain
FrameTimes == {1, 4}

\* ------------------------------------------------------------- arithmetic

GainDen == 8
NaN == -1

RECURSIVE Pow2(_)
Pow2(n) == IF n = 0 THEN 1 ELSE 2 * Pow2(n - 1)

RECURSIVE Ulp(_, _)
\* the spacing of the representable values around x >= 0: the least power
\* of two u with x < 2^prec * u
Ulp(x, u) == IF x < Pow2(prec) * u THEN u ELSE Ulp(x, 2 * u)

\* a / b for b > 0 rounded to the nearest integer, ties to even
RoundDiv(a, b) ==
    LET n == IF a < 0 THEN 0 - a ELSE a
        q == n \div b
        r == n % b
        m == IF 2 * r < b THEN q
             ELSE IF 2 * r > b THEN q + 1
             ELSE IF q % 2 = 0 THEN q ELSE q + 1
    IN  IF a < 0 THEN 0 - m ELSE m

\* the float nearest to the integer x
Fl(x) ==
    IF prec = 0 THEN x
    ELSE LET n == IF x < 0 THEN 0 - x ELSE x
             u == Ulp(n, 1)
             m == RoundDiv(n, u) * u
         IN  IF x < 0 THEN 0 - m ELSE m

FAdd(a, b) == Fl(a + b)
FSub(a, b) == Fl(a - b)
FMul(a, b) == Fl(a * b)
\* a / b for b > 0, rounded once to the nearest float
FDiv(a, b) ==
    IF prec = 0 THEN RoundDiv(a, b)
    ELSE LET n == IF a < 0 THEN 0 - a ELSE a
             u == Ulp(n \div b, 1)
             m == RoundDiv(n, b * u) * u
         IN  IF a < 0 THEN 0 - m ELSE m

RECURSIVE ISqrt(_, _)
\* the greatest r with r * r <= x, searched upward from r
ISqrt(x, r) == IF (r + 1) * (r + 1) > x THEN r ELSE ISqrt(x, r + 1)

\* sample_sqrt: the square root rounded to the nearest value, NaN below zero
FSqrt(x) ==
    IF x < 0 THEN NaN
    ELSE LET r == ISqrt(x, 0)
         IN  Fl(IF x - r * r > r THEN r + 1 ELSE r)

\* ----------------------------------------------------------------- rms.rs

Zeros(n) == [i \in 1..n |-> 0]

RECURSIVE SumSeq(_)
SumSeq(w) == IF w = <<>> THEN 0 ELSE Head(w) + SumSeq(Tail(w))

Rms_new(n_window_frames) ==
    [window |-> Zeros(n_window_frames), sum |-> 0]

Rms_reset(r) ==
    [window |-> Zeros(Len(r.window)), sum |-> 0]

\* pop_front without the subtraction
pop_front_nosub(r) ==
    [window |-> Tail(r.window), sum |-> r.sum]

\* pop_front without the clamp at zero
pop_front_noclamp(r) ==
    [window |-> Tail(r.window), sum |-> FSub(r.sum, Head(r.window))]

pop_front(r) ==
    LET removed_sample_square == Head(r.window)
        diff == FSub(r.sum, removed_sample_square)
    IN  [window |-> Tail(r.window),
         sum |-> IF diff < 0 THEN 0 ELSE diff]

push_back(r, new_frame) ==
    LET new_frame_square == FMul(new_frame, new_frame)
    IN  [window |-> Append(r.window, new_frame_square),
         sum |-> FAdd(r.sum, new_frame_square)]

calc_rms(r) == FSqrt(FDiv(r.sum, Len(r.window)))

\* set_window_frames shrinking from the back of the window
PopTimes_back(r, diff) ==
    LET kept == SubSeq(r.window, 1, Len(r.window) - diff)
    IN  [window |-> kept, sum |-> SumSeq(kept)]

RECURSIVE PopTimes(_, _)
PopTimes(r, diff) == IF diff = 0 THEN r ELSE PopTimes(pop_front(r), diff - 1)

\* set_window_frames padding with the average square instead of zeroes
Rms_set_window_frames_avg(r, n_window_frames) ==
    LET len == Len(r.window)
        avg == IF len = 0 THEN 0 ELSE FDiv(r.sum, len)
    IN  IF len = n_window_frames THEN r
        ELSE IF len > n_window_frames THEN PopTimes(r, len - n_window_frames)
        ELSE [window |-> [i \in 1..(n_window_frames - len) |-> avg] \o r.window,
              sum |-> FAdd(r.sum, FMul(avg, n_window_frames - len))]

\* set_window_frames without the early return, building the window anew
Rms_set_window_frames_rebuild(r, n_window_frames) ==
    LET len == Len(r.window)
    IN  IF len > n_window_frames THEN PopTimes(r, len - n_window_frames)
        ELSE IF len < n_window_frames
        THEN [window |-> Zeros(n_window_frames - len) \o r.window, sum |-> r.sum]
        ELSE [window |-> Zeros(n_window_frames), sum |-> 0]

Rms_set_window_frames(r, n_window_frames) ==
    LET len == Len(r.window)
    IN  IF len = n_window_frames THEN r
        ELSE IF len > n_window_frames THEN PopTimes(r, len - n_window_frames)
        ELSE [window |-> Zeros(n_window_frames - len) \o r.window,
              sum |-> r.sum]

Rms_window_frames(r) == Len(r.window)

\* next without the test for an empty window, pushing the square all the same
Rms_next_nocheck(r, new_frame) ==
    LET r2 == push_back(IF Len(r.window) = 0 THEN r ELSE pop_front(r), new_frame)
    IN  [rms |-> r2, out |-> calc_rms(r2)]

\* next evicting nothing
Rms_next_nopop(r, new_frame) ==
    IF Len(r.window) = 0
    THEN [rms |-> r, out |-> 0]
    ELSE LET r2 == push_back(r, new_frame)
         IN  [rms |-> r2, out |-> calc_rms(r2)]

\* the Rms after next(new_frame) and the value it returns
Rms_next(r, new_frame) ==
    IF Len(r.window) = 0
    THEN [rms |-> r, out |-> 0]
    ELSE LET r2 == push_back(pop_front(r), new_frame)
         IN  [rms |-> r2, out |-> calc_rms(r2)]

\* ---------------------------------------------------------------- peak.rs

\* a full wave rectifier that forgets to negate
FullWave_rectify_nosign(s) == s

FullWave_rectify(s) == IF s < 0 THEN 0 - s ELSE s

Peak_full_wave == [rectifier |-> "FullWave"]

\* ---------------------------------------------------------------- mode.rs

IsRms(d) == "window" \in DOMAIN d

\* Mode::next_frame: the detection mode afterwards and the mode's estimate
Mode_next(d, sample) ==
    IF IsRms(d)
    THEN LET n == Rms_next(d, sample) IN [mode |-> n.rms, out |-> n.out]
    ELSE [mode |-> d, out |-> FullWave_rectify(sample)]

\* ----------------------------------------------------------------- lib.rs

\* e^(-1 / frames) in units of 1 / GainDen, rounded to the nearest unit;
\* -1 / 0 is -inf and e^(-inf) is 0
calc_gain(frames) ==
    CASE frames = 0 -> 0
      [] frames = 1 -> 3
      [] frames = 2 -> 5
      [] frames = 4 -> 6
      [] OTHER -> GainDen

Mono_new(detection_mode) ==
    [detection_mode |-> detection_mode, last_env_sample |-> 0]

Mono_rms(rms_window_frames) == Mono_new(Rms_new(rms_window_frames))

Mono_peak == Mono_new(Peak_full_wave)

\* the attack gain picked for an estimate equal to the last envelope too
PickGain_le(last_env_sample, mode_sample, ag, rg) ==
    IF last_env_sample <= mode_sample THEN ag ELSE rg

\* the gain Mono::next picks for a mode estimate
PickGain(last_env_sample, mode_sample, ag, rg) ==
    IF last_env_sample < mode_sample THEN ag ELSE rg

\* an envelope that steps away from the mode estimate
Smoothed_away(mode_sample, gain, last_env_sample) ==
    FAdd(mode_sample, FDiv(gain * FSub(mode_sample, last_env_sample), GainDen))

\* mode_sample + gain * (last_env_sample - mode_sample)
Smoothed(mode_sample, gain, last_env_sample) ==
    FAdd(mode_sample, FDiv(gain * FSub(last_env_sample, mode_sample), GainDen))

\* what Mono::next leaves and returns: the detection mode n.mode and the
\* estimate n.out it made of the sample, the gain picked, the new envelope
Mono_stored(n, gain, new_env_sample) ==
    [mono |-> [detection_mode |-> n.mode, last_env_sample |-> new_env_sample],
     out |-> new_env_sample,
     est |-> n.out,
     gain |-> gain]

Mono_smoothed(n, gain, last_env_sample) ==
    Mono_stored(n, gain, Smoothed(n.out, gain, last_env_sample))

Mono_picked(n, last_env_sample, ag, rg) ==
    Mono_smoothed(n, PickGain(last_env_sample, n.out, ag, rg), last_env_sample)

\* the Mono after next(sample, attack_gain, release_gain) and the value returned
Mono_next(m, sample, ag, rg) ==
    Mono_picked(Mode_next(m.detection_mode, sample), m.last_env_sample, ag, rg)

\* a set_window_frames that starts the envelope again
Mono_set_window_frames_reset(m, n_window_frames) ==
    Mono_new(Rms_set_window_frames(m.detection_mode, n_window_frames))

Mono_set_window_frames(m, n_window_frames) ==
    [m EXCEPT !.detection_mode = Rms_set_window_frames(@, n_window_frames)]

\* a truncate that drops the leading channels
Truncate_back(chs, n) == SubSeq(chs, Len(chs) - n + 1, Len(chs))

\* Vec::truncate
Truncate(chs, n) == SubSeq(chs, 1, n)

\* resize cloning the first channel instead of the last
resize_first(chs, n_channels) ==
    LET len == Len(chs)
    IN  IF len = n_channels THEN chs
        ELSE IF len > n_channels THEN Truncate(chs, n_channels)
        ELSE chs \o [i \in 1..n_channels |-> chs[1]]

\* MultiChannel::resize
resize(chs, n_channels) ==
    LET len == Len(chs)
    IN  IF len = n_channels THEN chs
        ELSE IF len > n_channels THEN Truncate(chs, n_channels)
        ELSE LET clone == chs[len]
             IN  chs \o [i \in 1..n_channels |-> clone]

\* ------------------------------------------------- the standalone Rms

detvars == <<mode, channels, attack_gain, release_gain, requested, pre,
             back, fed, mono, step, configured, returned>>

Called(op, arg, status, val, n0) ==
    [op |-> op, arg |-> arg, status |-> status, val |-> val, n0 |-> n0]

Stepped(est, gain, last) == [est |-> est, gain |-> gain, last |-> last]

NoDetector ==
    /\ mode = "none"
    /\ channels = <<>>
    /\ attack_gain = 0
    /\ release_gain = 0
    /\ requested = 0
    /\ pre = <<>>
    /\ back = FALSE
    /\ clamped = FALSE
    /\ fed = 0
    /\ mono = Mono_peak
    /\ step = Stepped(0, 0, 0)
    /\ configured = 0
    /\ returned = <<>>

\* the history of a fresh Rms, and of one that is followed no longer
Fresh(n, samples) == [fresh |-> TRUE, n |-> n, samples |-> samples]
Stale == [fresh |-> FALSE, n |-> 0, samples |-> <<>>]

InitRms ==
    /\ prec \in {0, MantBits}
    /\ \E n \in WindowSizes :
          /\ rms = Rms_new(n)
          /\ call = Called("Rms::new", n, "ok", 0, 0)
          /\ hist = Fresh(n, <<>>)
    /\ NoDetector

\* whether one of the next k calls of pop_front on r clamps
RECURSIVE Clamps(_, _)
Clamps(r, k) ==
    /\ k > 0
    /\ \/ FSub(r.sum, Head(r.window)) < 0
       \/ Clamps(pop_front(r), k - 1)

RmsNext(new_frame) ==
    LET n == Rms_next(rms, new_frame)
    IN  /\ rms' = n.rms
        /\ clamped' = (Len(rms.window) > 0 /\ Clamps(rms, 1))
        /\ hist' = IF hist.fresh /\ Len(hist.samples) < MaxHist
                   THEN Fresh(hist.n, Append(hist.samples, new_frame))
                   ELSE Stale
        /\ call' = Called("Rms::next", new_frame, "ok", n.out, Len(rms.window))
        /\ UNCHANGED <<prec, detvars>>

RmsSetWindowFrames(n_window_frames) ==
    /\ rms' = Rms_set_window_frames(rms, n_window_frames)
    /\ clamped' = Clamps(rms, Len(rms.window) - n_window_frames)
    /\ hist' = Stale
    /\ call' = Called("Rms::set_window_frames", n_window_frames, "ok", 0,
                      Len(rms.window))
    /\ UNCHANGED <<prec, detvars>>

RmsReset ==
    /\ rms' = Rms_reset(rms)
    /\ clamped' = FALSE
    /\ hist' = Stale
    /\ call' = Called("Rms::reset", 0, "ok", 0, Len(rms.window))
    /\ UNCHANGED <<prec, detvars>>

NextRms ==
    \/ \E s \in Samples : RmsNext(s)
    \/ \E n \in WindowSizes : RmsSetWindowFrames(n)
    \/ RmsReset

SpecRms == InitRms /\ [][NextRms]_vars

\* ------------------------------------------- the multi-channel detector

Init ==
    /\ prec = 0
    /\ rms = Rms_new(0)
    /\ hist = Stale
    /\ call = Called("none", 0, "ok", 0, 0)
    /\ NoDetector

\* a call that panics before it changed anything
Panic(op, arg) ==
    /\ call' = Called(op, arg, "panic", 0, Len(channels))
    /\ UNCHANGED <<prec, rms, hist, clamped, detvars>>

\* MultiChannelEnvelopeDetector::rms
NewRms(rms_window_frames, attack_frames, release_frames, n_channels) ==
    /\ mode = "none"
    /\ IF n_channels > 0
       THEN /\ mode' = "rms"
            /\ channels' = [i \in 1..n_channels |-> Mono_rms(rms_window_frames)]
            /\ attack_gain' = calc_gain(attack_frames)
            /\ release_gain' = calc_gain(release_frames)
            /\ requested' = n_channels
            /\ configured' = rms_window_frames
            /\ returned' = [i \in 1..n_channels |-> 0]
            /\ call' = Called("rms", n_channels, "ok", 0, 0)
            /\ UNCHANGED <<prec, rms, hist, clamped, mono, step, pre, back, fed>>
       ELSE Panic("rms", n_channels)

\* MultiChannelEnvelopeDetector::peak
NewPeak(attack_frames, release_frames, n_channels) ==
    /\ mode = "none"
    /\ IF n_channels > 0
       THEN /\ mode' = "peak"
            /\ channels' = [i \in 1..n_channels |-> Mono_peak]
            /\ attack_gain' = calc_gain(attack_frames)
            /\ release_gain' = calc_gain(release_frames)
            /\ requested' = n_channels
            /\ returned' = [i \in 1..n_channels |-> 0]
            /\ call' = Called("peak", n_channels, "ok", 0, 0)
            /\ UNCHANGED <<prec, rms, hist, clamped, mono, step, configured, pre, back,
                           fed>>
       ELSE Panic("peak", n_channels)

\* a set_attack_frames that starts every envelope again
SetAttackFrames_reset(frames) ==
    /\ mode # "none"
    /\ attack_gain' = calc_gain(frames)
    /\ channels' = [i \in 1..Len(channels) |->
                       Mono_new(channels[i].detection_mode)]
    /\ call' = Called("set_attack_frames", frames, "ok", 0, Len(channels))
    /\ pre' = <<>>
    /\ back' = FALSE
    /\ UNCHANGED <<prec, rms, hist, clamped, mono, step, configured, returned,
                   mode, release_gain, requested, fed>>

SetAttackFrames(frames) ==
    /\ mode # "none"
    /\ attack_gain' = calc_gain(frames)
    /\ call' = Called("set_attack_frames", frames, "ok", 0, Len(channels))
    /\ pre' = <<>>
    /\ back' = FALSE
    /\ UNCHANGED <<prec, rms, hist, clamped, mono, step, configured, returned,
                   mode, channels, release_gain, requested, fed>>

SetReleaseFrames(frames) ==
    /\ mode # "none"
    /\ attack_gain' = calc_gain(frames)
    /\ call' = Called("set_release_frames", frames, "ok", 0, Len(channels))
    /\ pre' = <<>>
    /\ back' = FALSE
    /\ UNCHANGED <<prec, rms, hist, clamped, mono, step, configured, returned,
                   mode, channels, release_gain, requested, fed>>

\* a set_window_frames that reaches the first channel only
SetWindowFrames_first(n_window_frames) ==
    /\ mode = "rms"
    /\ channels' = [channels EXCEPT ![1] =
                       Mono_set_window_frames(@, n_window_frames)]
    /\ configured' = n_window_frames
    /\ call' = Called("set_window_frames", n_window_frames, "ok", 0, Len(channels))
    /\ pre' = <<>>
    /\ back' = FALSE
    /\ UNCHANGED <<prec, rms, hist, clamped, mono, step, returned, mode,
                   attack_gain, release_gain, requested, fed>>

\* MultiChannelEnvelopeDetector<Rms>::set_window_frames
SetWindowFrames(n_window_frames) ==
    /\ mode = "rms"
    /\ channels' = [i \in 1..Len(channels) |->
                       Mono_set_window_frames(channels[i], n_window_frames)]
    /\ configured' = n_window_frames
    /\ call' = Called("set_window_frames", n_window_frames, "ok", 0, Len(channels))
    /\ pre' = <<>>
    /\ back' = FALSE
    /\ UNCHANGED <<prec, rms, hist, clamped, mono, step, returned, mode,
                   attack_gain, release_gain, requested, fed>>

\* what next returned last per channel, for a detector of n channels: the
\* channels kept keep theirs, next never ran on a new one
Resized(ret, n) ==
    [i \in 1..n |-> IF i <= Len(ret) THEN ret[i] ELSE 0]

\* set_channels without its assertion
SetChannels_noassert(n_channels) ==
    /\ mode # "none"
    /\ channels' = resize(channels, n_channels)
    /\ requested' = n_channels
    /\ pre' = channels
    /\ back' = FALSE
    /\ returned' = Resized(returned, Len(resize(channels, n_channels)))
    /\ call' = Called("set_channels", n_channels, "ok", 0, Len(channels))
    /\ UNCHANGED <<prec, rms, hist, clamped, mono, step, configured, mode,
                   attack_gain, release_gain, fed>>

\* MultiChannelEnvelopeDetector::set_channels
SetChannels(n_channels) ==
    /\ mode # "none"
    /\ IF n_channels > 0
       THEN /\ channels' = resize(channels, n_channels)
            /\ requested' = n_channels
            /\ pre' = channels
            /\ back' = /\ pre # <<>>
                        /\ Len(pre) < Len(channels)
                        /\ n_channels = Len(pre)
            /\ returned' = Resized(returned, Len(resize(channels, n_channels)))
            /\ call' = Called("set_channels", n_channels, "ok", 0, Len(channels))
            /\ UNCHANGED <<prec, rms, hist, clamped, mono, step, configured, mode,
                           attack_gain, release_gain, fed>>
       ELSE Panic("set_channels", n_channels)

\* a next on channels that share their state with their clones
DetNext_shared(channel_idx, sample) ==
    /\ mode # "none"
    /\ fed < MaxFrames
    /\ IF channel_idx < Len(channels)
       THEN LET n == Mono_next(channels[channel_idx + 1], sample,
                               attack_gain, release_gain)
            IN  /\ channels' = [j \in 1..Len(channels) |->
                                   IF channels[j] = channels[channel_idx + 1]
                                   THEN n.mono ELSE channels[j]]
                /\ call' = Called("next", channel_idx, "ok", n.out, Len(channels))
                /\ pre' = <<>>
                /\ back' = FALSE
                /\ fed' = fed + 1
                /\ returned' = [returned EXCEPT ![channel_idx + 1] = n.out]
                /\ UNCHANGED <<prec, rms, hist, clamped, mono, step, configured,
                               mode, attack_gain, release_gain, requested>>
       ELSE Panic("next", channel_idx)

\* MultiChannelEnvelopeDetector::next; channel_idx counts from 0
DetNext(channel_idx, sample) ==
    /\ mode # "none"
    /\ fed < MaxFrames
    /\ IF channel_idx < Len(channels)
       THEN LET n == Mono_next(channels[channel_idx + 1], sample,
                               attack_gain, release_gain)
            IN  /\ channels' = [channels EXCEPT ![channel_idx + 1] = n.mono]
                /\ call' = Called("next", channel_idx, "ok", n.out, Len(channels))
                /\ pre' = <<>>
                /\ back' = FALSE
                /\ fed' = fed + 1
                /\ returned' = [returned EXCEPT ![channel_idx + 1] = n.out]
                /\ UNCHANGED <<prec, rms, hist, clamped, mono, step, configured,
                               mode, attack_gain, release_gain, requested>>
       ELSE Panic("next", channel_idx)

\* the channel indices a host may hand to next
Indices == 0..(2 * MaxChannels)

Next ==
    \/ \E w \in DetWindowSizes, a, r \in FrameTimes, n \in ChannelCounts :
          NewRms(w, a, r, n)
    \/ \E a, r \in FrameTimes, n \in ChannelCounts : NewPeak(a, r, n)
    \/ \E f \in FrameTimes : SetAttackFrames(f)
    \/ \E f \in FrameTimes : SetReleaseFrames(f)
    \/ \E n \in DetWindowSizes : SetWindowFrames(n)
    \/ \E n \in ChannelCounts : SetChannels(n)
    \/ \E i \in Indices, s \in DetSamples : DetNext(i, s)

Spec == Init /\ [][Next]_vars

\* --------------------------------------------- the single channel detector

\* the frame counts a host hands to a single channel detector
MonoFrameTimes == {0, 1, 4}

\* MonoEnvelopeDetector::rms and MonoEnvelopeDetector::peak
InitMono ==
    /\ prec \in {0, MantBits}
    /\ rms = Rms_new(0)
    /\ hist = Stale
    /\ channels = <<>>
    /\ requested = 0
    /\ pre = <<>>
    /\ back = FALSE
    /\ clamped = FALSE
    /\ fed = 0
    /\ step = Stepped(0, 0, 0)
    /\ configured = 0
    /\ returned = <<>>
    /\ \E a, r \in MonoFrameTimes :
          /\ attack_gain = calc_gain(a)
          /\ release_gain = calc_gain(r)
    /\ \/ \E w \in DetWindowSizes :
             /\ mode = "mono_rms"
             /\ mono = Mono_rms(w)
             /\ call = Called("MonoEnvelopeDetector::rms", w, "ok", 0, 0)
       \/ /\ mode = "mono_peak"
          /\ mono = Mono_peak
          /\ call = Called("MonoEnvelopeDetector::peak", 0, "ok", 0, 0)

\* MonoEnvelopeDetector::next
MonoNext(sample) ==
    LET n == Mono_next(mono, sample, attack_gain, release_gain)
    IN  /\ mono' = n.mono
        /\ step' = Stepped(n.est, n.gain, mono.last_env_sample)
        /\ call' = Called("Mono::next", sample, "ok", n.out, 0)
        /\ UNCHANGED <<prec, rms, hist, clamped, mode, channels, attack_gain,
                       release_gain, requested, pre, back, fed, configured,
                       returned>>

\* MonoEnvelopeDetector<Rms>::set_window_frames
MonoSetWindowFrames(n_window_frames) ==
    /\ mode = "mono_rms"
    /\ mono' = Mono_set_window_frames(mono, n_window_frames)
    /\ call' = Called("Mono::set_window_frames", n_window_frames, "ok", 0, 0)
    /\ UNCHANGED <<prec, rms, hist, clamped, mode, channels, attack_gain,
                   release_gain, requested, pre, back, fed, step, configured,
                   returned>>

NextMono ==
    \/ \E s \in MonoSamples : MonoNext(s)
    \/ \E n \in DetWindowSizes : MonoSetWindowFrames(n)
    \/ \E f \in MonoFrameTimes : SetAttackFrames(f)
    \/ \E f \in MonoFrameTimes : SetReleaseFrames(f)

SpecMono == InitMono /\ [][NextMono]_vars

\* ---------------------------------------------------------------- claims

\* set_channels(n) returned and made the detector larger
Grew == call.op = "set_channels" /\ call.status = "ok" /\ Len(pre) < call.arg

\* C1: after any set_channels(n) with n > 0 the detector has exactly n
\* channels.
C1_ExactlyNChannels ==
    (call.op = "set_channels" /\ call.status = "ok") => Len(channels) = call.arg

\* C2: set_attack_frames(T) sets attack_gain to gain(T) and leaves
\* release_gain alone; set_release_frames(T) sets release_gain to gain(T) and
\* leaves attack_gain alone.
C2_EachSetterItsOwnGain ==
    [][/\ call'.op = "set_attack_frames" =>
             /\ attack_gain' = calc_gain(call'.arg)
             /\ release_gain' = release_gain
       /\ call'.op = "set_release_frames" =>
             /\ release_gain' = calc_gain(call'.arg)
             /\ attack_gain' = attack_gain]_vars

\* C3: in exact arithmetic, after any sequence of Rms operations the running
\* sum equals the sum of the squares stored in the window.
C3_SumIsWindowSum ==
    prec = 0 => rms.sum = SumSeq(rms.window)

\* a shrink of a window whose retained entries are not all zero
C3_Witness ==
    /\ prec = 0
    /\ call.op = "Rms::set_window_frames"
    /\ call.arg < call.n0
    /\ rms.sum > 0

\* C4 as stated: growing a non-empty window inserts entries equal to the
\* average square sum / len, so the mean of the window after the grow equals
\* the mean before it.
C4_GrowPadsWithAverage ==
    [][(/\ call'.op = "Rms::set_window_frames"
        /\ Len(rms.window) > 0
        /\ call'.arg > Len(rms.window)) =>
            LET len == Len(rms.window)
                n == call'.arg
            IN  /\ Len(rms'.window) = n
                /\ \A i \in 1..(n - len) : rms'.window[i] * len = rms.sum
                /\ rms'.sum * len = rms.sum * n]_vars

\* C4 amended: growing a window inserts n - len zeroes at the front, keeps
\* the old entries behind them in their order and leaves sum unchanged; the
\* mean of a non-empty window after the grow, sum / n, equals the mean
\* before it only when sum is 0.
C4_GrowPadsWithZeroes ==
    [][(/\ call'.op = "Rms::set_window_frames"
        /\ call'.arg > Len(rms.window)) =>
            LET len == Len(rms.window)
                n == call'.arg
            IN  /\ rms'.window = Zeros(n - len) \o rms.window
                /\ rms'.sum = rms.sum
                /\ len > 0 => ((rms'.sum * len = rms.sum * n) <=> rms.sum = 0)]_vars

\* a non-empty window with a positive sum has just been grown
C4_Witness ==
    /\ call.op = "Rms::set_window_frames"
    /\ call.n0 > 0
    /\ call.arg > call.n0
    /\ rms.sum > 0

\* C5: set_channels(m) with m > k and then set_channels(k) leaves k channels
\* whose state is the state the k channels had before the two calls.
C5_GrowThenShrinkRestores ==
    [][(/\ pre # <<>>
        /\ Len(pre) < Len(channels)
        /\ call'.op = "set_channels"
        /\ call'.status = "ok"
        /\ call'.arg = Len(pre)) => channels' = pre]_vars

\* two channels of different state were grown and shrunk back to two
C5_Witness ==
    /\ back
    /\ call.op = "set_channels"
    /\ call.status = "ok"
    /\ Len(channels) > 1
    /\ channels[1] # channels[Len(channels)]

\* C6: when set_channels(n) grows a detector of k channels, channels 0..k-1
\* are unchanged and every channel at index k..n-1 has the state channel k-1
\* had before the call.
C6_GrowClonesLast ==
    Grew =>
        LET k == Len(pre)
            n == call.arg
        IN  /\ Len(channels) >= n
            /\ SubSeq(channels, 1, k) = pre
            /\ \A i \in (k + 1)..n : channels[i] = pre[k]

\* a detector whose first and last channel differ has been grown
C6_Witness ==
    /\ Grew
    /\ Len(pre) > 1
    /\ pre[1] # pre[Len(pre)]

\* C7: next(channel_index, sample) panics whenever channel_index is not less
\* than the n given at construction or to the most recent set_channels(n).
C7_NextPanicsBeyondRequested ==
    (call.op = "next" /\ call.arg >= requested) => call.status = "panic"

\* C8: a constructor and set_channels called with 0 channels panic, a
\* panicking call leaves channels and gains as they were, and a constructed
\* detector never has 0 channels.
C8_ZeroChannelsFailFast ==
    [][/\ (call'.op \in {"rms", "peak", "set_channels"} /\ call'.arg = 0) =>
             /\ call'.status = "panic"
             /\ channels' = channels
             /\ attack_gain' = attack_gain
             /\ release_gain' = release_gain
             /\ mode' = mode
       /\ mode' # "none" => Len(channels') > 0]_vars

\* set_channels(0) has panicked on a detector of several channels
C8_Witness ==
    /\ call.op = "set_channels"
    /\ call.arg = 0
    /\ call.status = "panic"
    /\ Len(channels) > 1

\* C9: the running sum of an Rms is never negative, so neither is the value
\* under the square root nor the value next() returns.
C9_SumNeverNegative ==
    /\ rms.sum >= 0
    /\ Len(rms.window) > 0 => FDiv(rms.sum, Len(rms.window)) >= 0
    /\ call.op = "Rms::next" => call.val >= 0

\* under rounding, next() has evicted a square greater than the sum, clamped
\* the difference to 0 and returned the root of the mean
C9_Witness ==
    /\ prec > 0
    /\ call.op = "Rms::next"
    /\ clamped
    /\ rms.sum > 0

\* C10: set_window_frames(n) with n the current window length changes neither
\* the window nor sum, and every next() after it returns what it would have
\* returned without the call.
C10_SameSizeIsNoOp ==
    [][(/\ call'.op = "Rms::set_window_frames"
        /\ call'.arg = Len(rms.window)) =>
            /\ rms' = rms
            /\ \A s \in Samples : Rms_next(rms', s) = Rms_next(rms, s)]_vars

\* a window with a positive sum has been resized to its own length
C10_Witness ==
    /\ call.op = "Rms::set_window_frames"
    /\ call.arg = call.n0
    /\ call.arg > 0
    /\ rms.sum > 0

\* the squares of the samples of a sequence
Squares(samples) == [i \in 1..Len(samples) |-> samples[i] * samples[i]]

\* the last n entries of a sequence, all of them when it has fewer
LastN(q, n) == IF Len(q) <= n THEN q ELSE SubSeq(q, Len(q) - n + 1, Len(q))

\* C11: with a window of length 0, next(sample) returns 0 and leaves the
\* window and sum as they were, without failing.
C11_EmptyWindowYieldsZero ==
    [][(call'.op = "Rms::next" /\ Len(rms.window) = 0) =>
            /\ call'.status = "ok"
            /\ call'.val = 0
            /\ rms' = rms]_vars

\* an Rms resized to 0 has been fed a sample that is not 0
C11_Witness ==
    /\ call.op = "Rms::next"
    /\ call.n0 = 0
    /\ call.arg # 0
    /\ ~hist.fresh

\* the squares of the samples as push_back computes them
FSquares(samples) == [i \in 1..Len(samples) |-> FMul(samples[i], samples[i])]

\* C12 as stated: on an Rms constructed with window size n > 0, after k calls
\* of next and no other call, the window holds the squares of the last
\* min(k, n) samples, oldest first, behind n - min(k, n) zeroes, and the k-th
\* output is the square root of the sum of those squares over n.
C12_FreshWindowHoldsLastSquares ==
    (hist.fresh /\ hist.n > 0) =>
        LET n == hist.n
            last == LastN(Squares(hist.samples), n)
        IN  /\ rms.window = Zeros(n - Len(last)) \o last
            /\ Len(hist.samples) > 0 =>
                  call.val = FSqrt(FDiv(SumSeq(last), n))

\* C12 amended: the window holds the squares, as rounded by the
\* multiplication, of the last min(k, n) samples behind n - min(k, n) zeroes;
\* where no sum rounds (exact arithmetic), sum is the sum of those squares
\* and the k-th output is the square root of that sum over n.
C12_FreshWindowExact ==
    (hist.fresh /\ hist.n > 0) =>
        LET n == hist.n
            last == LastN(FSquares(hist.samples), n)
        IN  /\ rms.window = Zeros(n - Len(last)) \o last
            /\ prec = 0 =>
                  /\ rms.sum = SumSeq(last)
                  /\ Len(hist.samples) > 0 =>
                        call.val = FSqrt(FDiv(SumSeq(last), n))

\* more samples than the window holds have been fed to a fresh Rms, the
\* evicted one and the last one not 0
C12_Witness ==
    /\ hist.fresh
    /\ prec = 0
    /\ Len(rms.window) > 1
    /\ Len(hist.samples) > Len(rms.window)
    /\ hist.samples[1] # 0
    /\ call.val > 0

\* C19 as stated: when set_window_frames(n) shrinks the window, the window
\* afterwards holds the n newest entries in their order and sum is the sum of
\* the retained entries.
C19_ShrinkKeepsNewest ==
    [][(call'.op = "Rms::set_window_frames" /\ call'.arg < Len(rms.window)) =>
            LET len == Len(rms.window)
                n == call'.arg
            IN  /\ rms'.window = SubSeq(rms.window, len - n + 1, len)
                /\ rms'.sum = SumSeq(rms'.window)]_vars

\* C19 amended: the window afterwards holds the n newest entries in their
\* order; sum is what the len - n evictions leave of it, each a rounded
\* subtraction clamped at 0, which is the sum of the retained entries where
\* no sum has rounded (exact arithmetic).
C19_ShrinkKeepsNewestExact ==
    [][(call'.op = "Rms::set_window_frames" /\ call'.arg < Len(rms.window)) =>
            LET len == Len(rms.window)
                n == call'.arg
            IN  /\ rms'.window = SubSeq(rms.window, len - n + 1, len)
                /\ rms'.sum >= 0
                /\ prec = 0 => rms'.sum = SumSeq(rms'.window)]_vars

\* a window has been shrunk to entries that are not all 0
C19_Witness ==
    /\ prec = 0
    /\ call.op = "Rms::set_window_frames"
    /\ call.arg < call.n0
    /\ call.arg > 0
    /\ rms.sum > 0

\* the envelope the last Mono::next returned lies between the envelope it
\* started from and the mode estimate, both ends included
BetweenWeak ==
    \/ step.last <= call.val /\ call.val <= step.est
    \/ step.est <= call.val /\ call.val <= step.last

BetweenStrict ==
    \/ step.last < call.val /\ call.val < step.est
    \/ step.est < call.val /\ call.val < step.last

\* both gains lie strictly between 0 and 1
GainsInside ==
    /\ 0 < attack_gain /\ attack_gain < GainDen
    /\ 0 < release_gain /\ release_gain < GainDen

\* Mono::next was called with both gains inside (0, 1) on an envelope that
\* differed from the mode estimate
Approaching ==
    /\ call.op = "Mono::next"
    /\ GainsInside
    /\ step.last # step.est

\* gain * (last_envelope - mode_estimate) is a value the arithmetic holds
\* without rounding
ExactStep ==
    /\ prec = 0
    /\ (step.gain * (step.last - step.est)) % GainDen = 0

\* C13: with both gains strictly between 0 and 1, each output of Mono::next
\* lies strictly between the previous envelope and the mode estimate v.
C13_StrictlyBetween == Approaching => BetweenStrict

\* C13, amended: each output lies between the previous envelope and v, the
\* ends included, so the envelope never moves away from v and never crosses
\* it; it lies strictly between them when the product is not rounded.
C13_BetweenEndsIncluded ==
    Approaching =>
        /\ BetweenWeak
        /\ ExactStep => BetweenStrict

\* Mono::next went on from an envelope that an earlier call had left
\* strictly between 0 and the estimate, once exactly and once rounding
C13_Witness ==
    /\ Approaching
    /\ step.last > 0
    /\ BetweenStrict
    /\ ExactStep

C13_WitnessRounded ==
    /\ Approaching
    /\ step.last > 0
    /\ ~ExactStep
    /\ call.val = step.est

\* the absolute value
Abs(x) == IF x < 0 THEN 0 - x ELSE x

\* C16: the mode estimate of a Peak (full wave) detector is the absolute
\* value of the sample just fed, whatever was fed before.
C16_PeakEstimateIsAbs ==
    (mode = "mono_peak" /\ call.op = "Mono::next") =>
        /\ step.est = Abs(call.arg)
        /\ mono.detection_mode = Peak_full_wave

\* a negative sample was fed to a Peak detector whose envelope, left by
\* earlier samples, was above the estimate
C16_Witness ==
    /\ mode = "mono_peak"
    /\ call.op = "Mono::next"
    /\ call.arg < 0
    /\ step.last > step.est
    /\ step.est > 0

\* the estimate of the detector the single channel holds, after it took the
\* sample of the last call
EstimateOfMode ==
    IF mode = "mono_peak" THEN Abs(call.arg)
    ELSE IF Len(mono.detection_mode.window) = 0 THEN 0
    ELSE calc_rms(mono.detection_mode)

\* C17: Mono::next takes the mode estimate from the channel's detector,
\* picks attack_gain exactly when last_envelope < mode_estimate and
\* release_gain otherwise, equality included, and stores and returns
\* mode_estimate + gain * (last_envelope - mode_estimate).
C17_NextPicksGainAndSmooths ==
    call.op = "Mono::next" =>
        /\ step.est = EstimateOfMode
        /\ step.gain = IF step.last < step.est THEN attack_gain ELSE release_gain
        /\ call.val = FAdd(step.est,
                           FDiv(step.gain * FSub(step.last, step.est), GainDen))
        /\ mono.last_env_sample = call.val

\* next met an estimate equal to the envelope, with gains that differ
C17_Witness ==
    /\ call.op = "Mono::next"
    /\ step.last = step.est
    /\ step.est > 0
    /\ attack_gain # release_gain
    /\ step.gain = release_gain

\* the envelopes of the channels
LastEnvelopes(chs) == [i \in 1..Len(chs) |-> chs[i].last_env_sample]

\* C14: each channel's last_envelope is 0 if next was never called on that
\* channel, and otherwise the value next returned last for that channel.
C14_EnvelopeIsLastReturned == LastEnvelopes(channels) = returned

\* C14, amended: the envelope of a channel that is kept changes only by a
\* next on that channel, which stores what it returns; the channels of a
\* constructor start at 0, and the channels set_channels adds start at the
\* envelope of the channel that was last before the call.
C14_OnlyNextOrCloning ==
    [][\A j \in 1..Len(channels') :
          LET e == channels'[j].last_env_sample
          IN  IF j <= Len(channels)
              THEN \/ e = channels[j].last_env_sample
                   \/ /\ call'.op = "next"
                      /\ call'.status = "ok"
                      /\ call'.arg = j - 1
                      /\ e = call'.val
              ELSE IF Len(channels) = 0
              THEN e = 0
              ELSE /\ call'.op = "set_channels"
                   /\ e = channels[Len(channels)].last_env_sample]_vars

\* set_channels added channels to a detector whose last channel had an
\* envelope other than 0
C14_Witness ==
    /\ Grew
    /\ channels[Len(channels)].last_env_sample # 0
    /\ returned[Len(channels)] = 0

\* C15: every channel of a multi-channel Rms detector has the window length
\* the constructor or the last set_window_frames configured.
C15_WindowLengthAsConfigured ==
    mode = "rms" =>
        \A i \in 1..Len(channels) :
            Rms_window_frames(channels[i].detection_mode) = configured

\* set_channels added channels after a sample was fed, to a detector with a
\* window of frames
C15_Witness ==
    /\ mode = "rms"
    /\ Grew
    /\ fed > 0
    /\ configured > 0

\* C18: next(i, sample) changes nothing but channel i: the other channels,
\* the channel count and both gains stay as they were.
C18_NextChangesOneChannel ==
    [][(call'.op = "next" /\ call'.status = "ok") =>
           /\ Len(channels') = Len(channels)
           /\ \A j \in 1..Len(channels) :
                 j # call'.arg + 1 => channels'[j] = channels[j]
           /\ attack_gain' = attack_gain
           /\ release_gain' = release_gain]_vars

\* next changed a channel beyond the count asked for, which only the
\* cloning of set_channels makes, next to a channel it was equal to
C18_Witness ==
    /\ call.op = "next"
    /\ call.status = "ok"
    /\ call.arg >= requested
    /\ channels[call.arg + 1] # channels[call.arg]

\* C20: set_attack_frames and set_release_frames leave every channel (its
\* envelope, window, sum and window length) and the channel count alone.
C20_GainSettersKeepChannels ==
    [][(call'.op \in {"set_attack_frames", "set_release_frames"}) =>
           /\ channels' = channels
           /\ mode' = mode]_vars

\* a gain setter ran on a detector with a filled window and an envelope
C20_Witness ==
    /\ call.op \in {"set_attack_frames", "set_release_frames"}
    /\ mode = "rms"
    /\ \E i \in 1..Len(channels) :
          /\ channels[i].last_env_sample # 0
          /\ channels[i].detection_mode.sum # 0
====
